---- MODULE Spec2Model ----
(***************************************************************************)
(* Konsole Theme Switcher (src/konsole/konsole-theme-switcher.py).         *)
(*                                                                         *)
(* The process resolves the KDE colour scheme to a Konsole profile,        *)
(* switches every running Konsole session to it, writes it as the default  *)
(* profile, and then repeats that on debounced inotify events for          *)
(* ~/.config/kdeglobals.                                                   *)
(*                                                                         *)
(* Time is the reading of time.monotonic() in quarters of a second.  Every *)
(* external call (kreadconfig6, pgrep, qdbus-qt6, kwriteconfig6) is one    *)
(* step whose outcome is chosen by the environment.  The clock advances,   *)
(* the colour scheme changes and inotify events are queued while the       *)
(* process is idle and while a reconciliation is in flight; since a        *)
(* reconciliation reads neither the clock, the colour scheme nor the event *)
(* queue, what the environment does during one is taken before its first   *)
(* call.                                                                   *)
(***************************************************************************)
EXTENDS Integers, Sequences, FiniteSets, TLC

\* ------------------------------------------------------------------ bounds
MaxPids == 2        \* Konsole processes that may be running
MaxSess == 2        \* sessions one Konsole process may hold
MaxClock == 4       \* last clock reading explored (quarters of a second)
MaxEvents == 2      \* inotify events delivered over a run
MaxPending == 1     \* events queued while the handler is busy
MaxSchemeLen == 5    \* characters kreadconfig6 prints, where every string is tried

\* --------------------------------------------------------- program constants
KDEGLOBALS_NAME == "kdeglobals"
LIGHT_PROFILE == "Light"
DARK_PROFILE == "Dark"
\* DEBOUNCE_SECONDS = 0.5, in quarters of a second
DEBOUNCE_SECONDS == 2
None == "None"

Pids == 1..MaxPids
Profiles == {LIGHT_PROFILE, DARK_PROFILE}

\* ------------------------------------------------------------------ strings
\* A string is a sequence of one-character strings.
UpperToLower ==
  [c \in {"A", "B", "C", "D", "E", "F", "G", "H", "I", "J", "K", "L", "M",
          "N", "O", "P", "Q", "R", "S", "T", "U", "V", "W", "X", "Y", "Z"} |->
     CASE c = "A" -> "a" [] c = "B" -> "b" [] c = "C" -> "c" [] c = "D" -> "d"
       [] c = "E" -> "e" [] c = "F" -> "f" [] c = "G" -> "g" [] c = "H" -> "h"
       [] c = "I" -> "i" [] c = "J" -> "j" [] c = "K" -> "k" [] c = "L" -> "l"
       [] c = "M" -> "m" [] c = "N" -> "n" [] c = "O" -> "o" [] c = "P" -> "p"
       [] c = "Q" -> "q" [] c = "R" -> "r" [] c = "S" -> "s" [] c = "T" -> "t"
       [] c = "U" -> "u" [] c = "V" -> "v" [] c = "W" -> "w" [] c = "X" -> "x"
       [] c = "Y" -> "y" [] c = "Z" -> "z"]

\* Variant: the scheme name is compared as it is, case included.
lower_Identity(s) == s

\* str.lower()
lower(s) ==
  [i \in 1..Len(s) |-> IF s[i] \in DOMAIN UpperToLower THEN UpperToLower[s[i]] ELSE s[i]]

Whitespace == {" ", "\n", "\t", "\r"}

\* str.strip()
RECURSIVE strip(_)
strip(s) ==
  IF s = <<>> THEN s
  ELSE IF Head(s) \in Whitespace THEN strip(Tail(s))
  ELSE IF s[Len(s)] \in Whitespace THEN strip(SubSeq(s, 1, Len(s) - 1))
  ELSE s

\* indicator in scheme_lower
Contains(sub, s) ==
  \E i \in 1..(Len(s) - Len(sub) + 1) : SubSeq(s, i, i + Len(sub) - 1) = sub

\* What kreadconfig6 may print for General/ColorScheme; ExitNonZero stands for
\* the run in which kreadconfig6 exits with a non-zero status.
ExitNonZero == <<"!">>
BreezeDark == <<"B", "r", "e", "e", "z", "e", "D", "a", "r", "k", "\n">>
BreezeLight == <<"B", "r", "e", "e", "z", "e", "L", "i", "g", "h", "t", "\n">>
KreadOutputs == {BreezeDark, BreezeLight, ExitNonZero}

\* Every string of up to MaxSchemeLen characters over SchemeAlphabet, and the
\* names of some colour schemes.
SchemeAlphabet == {"d", "a", "r", "k", "n", "o", "D", "K", "\n"}
ShortOutputs == UNION {[1..n -> SchemeAlphabet] : n \in 0..MaxSchemeLen}
SchemeNames ==
  { BreezeDark, BreezeLight,
    <<"M", "i", "d", "N", "i", "g", "h", "t", "\n">>,
    <<"S", "w", "e", "e", "t", "-", "B", "L", "A", "C", "K">>,
    <<"M", "o", "n", "o", "k", "a", "i", "\n">>,
    <<" ", "D", "r", "a", "c", "u", "l", "a", "\n">>,
    <<"N", "o", "r", "d", "i", "c">>,
    <<"O", "x", "y", "g", "e", "n", "\n">>,
    <<"B", "r", "e", "e", "z", "e", "C", "l", "a", "s", "s", "i", "c", "\n">>,
    <<"D", "r", "a", "k", " ", "K", "n", "i", "g", "h", "t">> }

\* ------------------------------------------------------------------- state
VARIABLES
  pc,                 \* position of the single thread of control
  caller,             \* who runs the reconciliation in flight: "main" or "handler"
  profile,            \* local variable profile of main / _debounced_switch
  pids,               \* switch_all_konsoles: result of get_konsole_pids()
  pidIdx,             \* switch_all_konsoles: position of "for pid in pids"
  sessions,           \* switch_all_konsoles: result of get_konsole_sessions(pid)
  sessIdx,            \* switch_all_konsoles: position of "for session in sessions"
  switched_count,     \* switch_all_konsoles: switched_count
  _last_switch_time,  \* KdeGlobalsHandler._last_switch_time
  _last_profile,      \* KdeGlobalsHandler._last_profile
  clock,              \* environment: time.monotonic()
  kread,              \* environment: what kreadconfig6 answers now
  konsoles,           \* environment: running Konsole pid -> its number of sessions
  watching,           \* environment: the inotify watch on ~/.config exists
  pending,            \* inotify events queued for the notifier
  arrivals,           \* number of inotify events delivered so far
  handled,            \* history: kdeglobals events _debounced_switch has seen
  recs,               \* history: reconciliations started
  calls,              \* history: external calls of the reconciliation in flight
  outcome             \* history: what the latest reconciliation reported,
                      \* NoOutcome while it is in flight

vars == <<pc, caller, profile, pids, pidIdx, sessions, sessIdx, switched_count,
          _last_switch_time, _last_profile, clock, kread, konsoles,
          watching, pending, arrivals, handled, recs, calls, outcome>>

localVars == <<pids, pidIdx, sessions, sessIdx, switched_count>>
handlerVars == <<_last_switch_time, _last_profile>>
envVars == <<clock, kread, konsoles>>
eventVars == <<watching, pending, arrivals>>

\* ---------------------------------------------------------- Mode Resolver
\* get_kde_color_scheme(): stdout stripped, "" on CalledProcessError
get_kde_color_scheme == IF kread = ExitNonZero THEN <<>> ELSE strip(kread)

dark_indicators ==
  { <<"d", "a", "r", "k">>, <<"n", "i", "g", "h", "t">>, <<"b", "l", "a", "c", "k">>,
    <<"m", "o", "n", "o", "k", "a", "i">>, <<"d", "r", "a", "c", "u", "l", "a">>,
    <<"n", "o", "r", "d">> }

is_dark_scheme(scheme_name) ==
  \E indicator \in dark_indicators : Contains(indicator, lower(scheme_name))

get_target_profile ==
  IF is_dark_scheme(get_kde_color_scheme) THEN DARK_PROFILE ELSE LIGHT_PROFILE

\* ------------------------------------------------------- history records
\* One external call of a reconciliation: op is "pgrep", "sessions",
\* "setProfile" or "kwriteconfig"; pid and session name the target (0: none),
\* value is the profile argument or the value written (None: none).
Call(op, pid, session, value, ok) ==
  [op |-> op, pid |-> pid, session |-> session, value |-> value, ok |-> ok]

\* A reconciliation started for profile p by "main" or "handler" at clock reading t.
Rec(p, by, t) == [profile |-> p, by |-> by, at |-> t]

\* What a reconciliation reported; NoOutcome while none has finished.
Outcome(p, attempted, succeeded) ==
  [profile |-> p, targetsAttempted |-> attempted, targetsSucceeded |-> succeeded]
NoOutcome == Outcome(None, 0, 0)

\* A kdeglobals event that arrived at arr and was handled at clock reading at;
\* gate is "debounced", "suppressed" or "applied".
Handled(e, at, gate) == [arr |-> e.arr, at |-> at, gate |-> gate]

\* ------------------------------------------------------ Target Discovery
\* The pids in the order pgrep prints them (ascending).
RECURSIVE Ascending(_)
Ascending(S) ==
  IF S = {} THEN <<>>
  ELSE LET m == CHOOSE x \in S : \A y \in S : x <= y
       IN <<m>> \o Ascending(S \ {m})

\* One line of the stdout of "qdbus-qt6 <service> /Sessions".
SessionLine(n) == [path |-> "/Sessions/", id |-> n]
EmptyLine == [path |-> "", id |-> 0]

\* result.stdout.strip().split("\n") for an instance with n sessions
StdoutLines(n) == IF n = 0 THEN <<EmptyLine>> ELSE [i \in 1..n |-> SessionLine(i)]

\* line.startswith("/Sessions/")
IsSessionPath(line) == line.path = "/Sessions/"

\* get_konsole_sessions(pid): the session paths when qdbus-qt6 returns 0, [] otherwise
get_konsole_sessions(pid, ok) ==
  IF ok THEN SelectSeq(StdoutLines(konsoles[pid]), IsSessionPath) ELSE <<>>

\* ------------------------------------------------------------ main, startup
\* profile = get_target_profile(); switch_all_konsoles(profile) is entered
MainResolve ==
  /\ pc = "resolve"
  /\ profile' = get_target_profile
  /\ caller' = "main"
  /\ recs' = Append(recs, Rec(get_target_profile, "main", clock))
  /\ calls' = <<>>
  /\ outcome' = NoOutcome
  /\ pc' = "pgrep"
  /\ UNCHANGED <<localVars, handlerVars, envVars, eventVars, handled>>

\* ------------------------------------------------- switch_all_konsoles
\* Variant: the caller does not go on to update_konsolerc_default_profile.
AfterSwitchAll_NoUpdate == "return"

\* Where control goes when switch_all_konsoles returns: both callers go on to
\* update_konsolerc_default_profile(profile).
AfterSwitchAll == "konsolerc"

\* Variant: switched_count is not set to 0 when switch_all_konsoles is entered.
GetKonsolePids_CountKept ==
  /\ pc = "pgrep"
  /\ \E running \in SUBSET Pids :
       \E ns \in [running -> 0..MaxSess] :
         /\ konsoles' = ns
         /\ pids' = Ascending(running)
         /\ pc' = IF running = {} THEN AfterSwitchAll ELSE "sessions"
  /\ pidIdx' = 1
  /\ sessions' = <<>>
  /\ sessIdx' = 1
  /\ switched_count' = switched_count
  /\ calls' = Append(calls, Call("pgrep", 0, 0, None, TRUE))
  /\ UNCHANGED <<caller, profile, handlerVars, clock, kread, eventVars,
                 handled, recs, outcome>>

\* pids = get_konsole_pids(); switched_count = 0
GetKonsolePids ==
  /\ pc = "pgrep"
  /\ \E running \in SUBSET Pids :
       \E ns \in [running -> 0..MaxSess] :
         /\ konsoles' = ns
         /\ pids' = Ascending(running)
         /\ pc' = IF running = {} THEN AfterSwitchAll ELSE "sessions"
  /\ pidIdx' = 1
  /\ sessions' = <<>>
  /\ sessIdx' = 1
  /\ switched_count' = 0
  /\ calls' = Append(calls, Call("pgrep", 0, 0, None, TRUE))
  /\ UNCHANGED <<caller, profile, handlerVars, clock, kread, eventVars,
                 handled, recs, outcome>>

\* The for loop over pids moves on from position i: the next pid is queried,
\* or switch_all_konsoles returns and the caller goes on to update konsolerc.
NextPid(i) ==
  /\ pidIdx' = i + 1
  /\ pc' = IF i < Len(pids) THEN "sessions" ELSE AfterSwitchAll

\* Variant: an instance without sessions, or one that does not answer, ends
\* the loop over pids.
AfterSessions_Abort(found) ==
  IF found = <<>>
    THEN pc' = AfterSwitchAll /\ pidIdx' = pidIdx
    ELSE pc' = "setProfile" /\ pidIdx' = pidIdx

\* After get_konsole_sessions(pid) has returned found: its sessions are
\* switched one by one, or, when there are none, the next pid is taken.
AfterSessions(found) ==
  IF found = <<>>
    THEN NextPid(pidIdx)
    ELSE pc' = "setProfile" /\ pidIdx' = pidIdx

\* sessions = get_konsole_sessions(pid), for pid = pids[pidIdx]
GetKonsoleSessions ==
  /\ pc = "sessions"
  /\ \E ok \in BOOLEAN :
       /\ sessions' = get_konsole_sessions(pids[pidIdx], ok)
       /\ calls' = Append(calls, Call("sessions", pids[pidIdx], 0, None, ok))
       /\ AfterSessions(get_konsole_sessions(pids[pidIdx], ok))
  /\ sessIdx' = 1
  /\ UNCHANGED <<caller, profile, pids, switched_count, handlerVars, envVars,
                 eventVars, handled, recs, outcome>>

\* if set_session_profile(...): switched_count += 1
Tally(ok) == IF ok THEN switched_count + 1 ELSE switched_count

\* Variant: a failed set_session_profile ends the loop over this pid's sessions.
NextSession_BreakOnFailure(ok) ==
  IF ok /\ sessIdx < Len(sessions)
    THEN sessIdx' = sessIdx + 1 /\ pc' = "setProfile" /\ pidIdx' = pidIdx
    ELSE sessIdx' = sessIdx + 1 /\ NextPid(pidIdx)

\* The for loop over sessions moves on after one set_session_profile call.
NextSession(ok) ==
  IF sessIdx < Len(sessions)
    THEN sessIdx' = sessIdx + 1 /\ pc' = "setProfile" /\ pidIdx' = pidIdx
    ELSE sessIdx' = sessIdx + 1 /\ NextPid(pidIdx)

\* set_session_profile(pid, session, profile), for session = sessions[sessIdx]
SetSessionProfile ==
  /\ pc = "setProfile"
  /\ \E ok \in BOOLEAN :
       /\ switched_count' = Tally(ok)
       /\ calls' = Append(calls, Call("setProfile", pids[pidIdx], sessions[sessIdx].id,
                                       profile, ok))
       /\ NextSession(ok)
  /\ UNCHANGED <<caller, profile, pids, sessions, handlerVars, envVars, eventVars,
                 handled, recs, outcome>>

\* f"{profile}.profile"
ProfileFile(p) ==
  CASE p = DARK_PROFILE -> "Dark.profile"
    [] p = LIGHT_PROFILE -> "Light.profile"

\* Where control goes when the reconciliation is over: main goes on to set up
\* the watch, _debounced_switch returns into notifier.loop().
AfterReconcile == IF caller = "main" THEN "watch" ELSE "loop"

\* update_konsolerc_default_profile(profile): kwriteconfig6 is run for the key
\* DefaultProfile; its failure is printed and nothing else
UpdateKonsolerc ==
  /\ pc = "konsolerc"
  /\ \E ok \in BOOLEAN :
       calls' = Append(calls, Call("kwriteconfig", 0, 0, ProfileFile(profile), ok))
  /\ pc' = "return"
  /\ UNCHANGED <<caller, profile, localVars, handlerVars, clock, kread, konsoles,
                 eventVars, handled, recs, outcome>>

\* The calls of a reconciliation that are set_session_profile calls.
Applies(cs) == SelectSeq(cs, LAMBDA c : c.op = "setProfile")

\* The reconciliation is over: the locals of switch_all_konsoles are gone, and
\* what it printed ("Switched N Konsole session(s) to 'profile' profile") stays.
Return ==
  /\ pc = "return"
  /\ pc' = AfterReconcile
  /\ outcome' = Outcome(profile, Len(Applies(calls)), switched_count)
  /\ pids' = <<>>
  /\ pidIdx' = 1
  /\ sessions' = <<>>
  /\ sessIdx' = 1
  /\ switched_count' = 0
  /\ konsoles' = <<>>
  /\ calls' = <<>>
  /\ UNCHANGED <<caller, profile, handlerVars, clock, kread, eventVars,
                 handled, recs>>

\* A qdbus-qt6 or kwriteconfig6 child that never exits: subprocess.run is
\* called without a timeout, so the call never returns.
CallNeverReturns ==
  /\ pc \in {"sessions", "setProfile", "konsolerc"}
  /\ pc' = "blocked"
  /\ UNCHANGED <<caller, profile, localVars, handlerVars, envVars, eventVars,
                 handled, recs, calls, outcome>>

\* --------------------------------------------------- main, watch set-up
\* Variant: main leaves the handler's _last_profile as __init__ set it.
InitLastProfile_Omitted == None

\* handler._last_profile = profile
InitLastProfile == profile

\* wm = WatchManager(); handler = KdeGlobalsHandler(); handler._last_profile =
\* profile; wm.add_watch(config_dir, mask); notifier.loop() is entered.
\* WatchManager() raises OSError when inotify cannot be initialised, which
\* nothing catches.  add_watch is called with its default quiet=True: a watch
\* that cannot be added is logged by pyinotify and reported in the returned
\* mapping, which main discards.
SetUpWatch ==
  /\ pc = "watch"
  /\ \/ /\ pc' = "crashed"
        /\ UNCHANGED <<handlerVars, watching>>
     \/ /\ \E added \in BOOLEAN : watching' = added
        /\ _last_switch_time' = 0
        /\ _last_profile' = InitLastProfile
        /\ pc' = "loop"
  /\ UNCHANGED <<caller, profile, localVars, envVars, pending, arrivals, handled,
                 recs, calls, outcome>>

\* --------------------------------------------------- KdeGlobalsHandler
\* The names and event classes inotify reports for ~/.config under the mask
\* IN_CLOSE_WRITE | IN_MOVED_TO.
Names == {KDEGLOBALS_NAME, "konsolerc"}
Masks == {"IN_CLOSE_WRITE", "IN_MOVED_TO"}

\* Variant: every event of the watched directory is processed.
_should_process_Any(event) == TRUE

\* _should_process(event)
_should_process(event) == event.name = KDEGLOBALS_NAME

\* Variant: the window is compared against nothing, so no event is debounced.
Debounced_NoWindow(now) == now - _last_switch_time < 0

\* now - self._last_switch_time < self.DEBOUNCE_SECONDS
Debounced(now) == now - _last_switch_time < DEBOUNCE_SECONDS

\* Variant: the resolved profile is never taken as unchanged.
Unchanged_Never(p) == FALSE

\* profile == self._last_profile
Unchanged(p) == p = _last_profile

\* Variant: the handler's fields are not written before switch_all_konsoles.
Remember_Skipped(now, p) == UNCHANGED <<_last_switch_time, _last_profile>>

\* Variant: only the time of the switch is written.
Remember_TimeOnly(now, p) ==
  /\ _last_switch_time' = now
  /\ _last_profile' = _last_profile

\* Variant: only the profile is written.
Remember_ProfileOnly(now, p) ==
  /\ _last_switch_time' = _last_switch_time
  /\ _last_profile' = p

\* self._last_switch_time = now; self._last_profile = profile
Remember(now, p) ==
  /\ _last_switch_time' = now
  /\ _last_profile' = p

\* _debounced_switch(), called for event e: both returns, or the updates of
\* the handler followed by the entry into switch_all_konsoles(profile)
_debounced_switch(e) ==
  LET now == clock
      p == get_target_profile
  IN  IF Debounced(now)
        THEN /\ handled' = Append(handled, Handled(e, now, "debounced"))
             /\ UNCHANGED <<pc, caller, profile, handlerVars, recs, calls, outcome>>
        ELSE IF Unchanged(p)
          THEN /\ handled' = Append(handled, Handled(e, now, "suppressed"))
               /\ UNCHANGED <<pc, caller, profile, handlerVars, recs, calls, outcome>>
          ELSE /\ handled' = Append(handled, Handled(e, now, "applied"))
               /\ Remember(now, p)
               /\ profile' = p
               /\ caller' = "handler"
               /\ recs' = Append(recs, Rec(p, "handler", now))
               /\ calls' = <<>>
               /\ outcome' = NoOutcome
               /\ pc' = "pgrep"

\* The notifier takes the next queued event and dispatches it.
Dispatch(e) ==
  /\ pending' = Tail(pending)
  /\ IF _should_process(e)
       THEN _debounced_switch(e)
       ELSE UNCHANGED <<pc, caller, profile, handlerVars, handled, recs, calls, outcome>>
  /\ UNCHANGED <<localVars, envVars, watching, arrivals>>

\* Variant: the notifier hands an event to the handler from a second thread,
\* while a call of the handler may still be running.
process_IN_CLOSE_WRITE_Threaded ==
  /\ pc \in {"loop", "pgrep", "sessions", "setProfile", "konsolerc", "return"}
  /\ pending # <<>>
  /\ Head(pending).mask = "IN_CLOSE_WRITE"
  /\ Dispatch(Head(pending))

\* process_IN_CLOSE_WRITE(event), called by notifier.loop() once the previous
\* handler call has returned
process_IN_CLOSE_WRITE ==
  /\ pc = "loop"
  /\ pending # <<>>
  /\ Head(pending).mask = "IN_CLOSE_WRITE"
  /\ Dispatch(Head(pending))

\* process_IN_MOVED_TO(event), called by notifier.loop() in the same way
process_IN_MOVED_TO ==
  /\ pc = "loop"
  /\ pending # <<>>
  /\ Head(pending).mask = "IN_MOVED_TO"
  /\ Dispatch(Head(pending))

\* KeyboardInterrupt inside notifier.loop(), a handler in flight included:
\* notifier.stop()
InTry ==
  \/ pc = "loop"
  \/ caller = "handler" /\ pc \in {"pgrep", "sessions", "setProfile", "konsolerc", "return", "blocked"}

KeyboardInterrupt ==
  /\ InTry
  /\ pc' = "stopped"
  /\ watching' = FALSE
  /\ pending' = <<>>
  /\ pids' = <<>>
  /\ pidIdx' = 1
  /\ sessions' = <<>>
  /\ sessIdx' = 1
  /\ switched_count' = 0
  /\ konsoles' = <<>>
  /\ calls' = <<>>
  /\ UNCHANGED <<caller, profile, handlerVars, clock, kread, arrivals,
                 handled, recs, outcome>>

\* ------------------------------------------------------------ environment
\* Where the environment's steps are taken: before the process resolves the
\* scheme, before the first call of a reconciliation, and while main sets up
\* the watch or waits in notifier.loop().
EnvPoint == pc \in {"resolve", "pgrep", "watch", "loop"}

\* time.monotonic() advances.  An event queued while notifier.loop() is idle
\* is dispatched at once, before the clock reads a later value; an event
\* queued during a reconciliation waits until the handler has returned.
Tick ==
  /\ EnvPoint
  /\ ~(pc = "loop" /\ pending # <<>>)
  /\ clock < MaxClock
  /\ clock' = clock + 1
  /\ UNCHANGED <<pc, caller, profile, localVars, handlerVars, kread, konsoles,
                 eventVars, handled, recs, calls, outcome>>

\* The desktop's colour scheme changes, or kreadconfig6 starts or stops failing.
SchemeChanges ==
  /\ EnvPoint
  /\ \E out \in KreadOutputs \ {kread} : kread' = out
  /\ UNCHANGED <<pc, caller, profile, localVars, handlerVars, clock, konsoles,
                 eventVars, handled, recs, calls, outcome>>

\* inotify queues an event for an entry of ~/.config.
EventArrives ==
  /\ EnvPoint
  /\ watching
  /\ arrivals < MaxEvents
  /\ Len(pending) < MaxPending
  /\ \E name \in Names, mask \in Masks :
       pending' = Append(pending, [name |-> name, mask |-> mask, arr |-> clock])
  /\ arrivals' = arrivals + 1
  /\ UNCHANGED <<pc, caller, profile, localVars, handlerVars, envVars, watching,
                 handled, recs, calls, outcome>>

\* ---------------------------------------------------------- specification
Init ==
  /\ pc = "resolve"
  /\ caller = "main"
  /\ profile = None
  /\ pids = <<>>
  /\ pidIdx = 1
  /\ sessions = <<>>
  /\ sessIdx = 1
  /\ switched_count = 0
  /\ _last_switch_time = 0
  /\ _last_profile = None
  /\ clock \in 0..MaxClock
  /\ kread \in KreadOutputs
  /\ konsoles = <<>>
  /\ watching = FALSE
  /\ pending = <<>>
  /\ arrivals = 0
  /\ handled = <<>>
  /\ recs = <<>>
  /\ calls = <<>>
  /\ outcome = NoOutcome

Next ==
  \/ MainResolve
  \/ GetKonsolePids
  \/ GetKonsoleSessions
  \/ SetSessionProfile
  \/ UpdateKonsolerc
  \/ Return
  \/ CallNeverReturns
  \/ SetUpWatch
  \/ process_IN_CLOSE_WRITE
  \/ process_IN_MOVED_TO
  \/ KeyboardInterrupt
  \/ Tick
  \/ SchemeChanges
  \/ EventArrives

Spec == Init /\ [][Next]_vars

\* The interpreter goes on to the next statement whenever a call has returned:
\* a statement of a reconciliation that can run to its end does.  Nothing is
\* assumed of the environment: of a child process that does not exit, of
\* the clock, the colour scheme, the events or the interrupt.
FairSpec ==
  /\ Spec
  /\ WF_vars(GetKonsolePids)
  /\ WF_vars(GetKonsoleSessions)
  /\ WF_vars(SetSessionProfile)
  /\ WF_vars(UpdateKonsolerc)
  /\ WF_vars(Return)

\* ------------------------------------- switch_all_konsoles called twice in a row
\* switch_all_konsoles(profile); update_konsolerc_default_profile(profile) is
\* called a second time with the same profile, as soon as the first pass is
\* over.  What the first pass printed is kept in outcome, its calls stay in
\* calls, and its locals are left as they were.
ReconcileAgain ==
  /\ pc = "return"
  /\ Len(recs) = 1
  /\ recs' = Append(recs, Rec(profile, caller, clock))
  /\ outcome' = Outcome(profile, Len(Applies(calls)), switched_count)
  /\ pc' = "pgrep"
  /\ UNCHANGED <<caller, profile, localVars, handlerVars, envVars, eventVars,
                 handled, calls>>

\* What the same call answered in the first pass (c.ok when it was not made).
FirstResult(c) ==
  LET S == {i \in DOMAIN calls : /\ calls[i].op = c.op
                                 /\ calls[i].pid = c.pid
                                 /\ calls[i].session = c.session}
  IN  IF S = {} THEN c.ok ELSE calls[CHOOSE i \in S : \A k \in S : i <= k].ok

\* In the second pass the environment is as in the first: the same instances
\* with the same sessions run, and every call is answered as it was.
SameEnvironment ==
  (Len(recs) = 2) =>
    /\ konsoles' = konsoles
    /\ calls'[Len(calls')].ok = FirstResult(calls'[Len(calls')])

IdemNext ==
  \/ MainResolve
  \/ GetKonsolePids /\ SameEnvironment
  \/ GetKonsoleSessions /\ SameEnvironment
  \/ SetSessionProfile /\ SameEnvironment
  \/ UpdateKonsolerc /\ SameEnvironment
  \/ ReconcileAgain

IdemSpec == Init /\ [][IdemNext]_vars

\* --------------------------------------------- get_target_profile on its own
\* The process is started while kreadconfig6 answers any of the strings above,
\* or fails; main resolves the profile.
ResolverInit ==
  /\ pc = "resolve"
  /\ caller = "main"
  /\ profile = None
  /\ pids = <<>>
  /\ pidIdx = 1
  /\ sessions = <<>>
  /\ sessIdx = 1
  /\ switched_count = 0
  /\ _last_switch_time = 0
  /\ _last_profile = None
  /\ clock = 0
  /\ kread \in ShortOutputs \cup SchemeNames \cup {ExitNonZero}
  /\ konsoles = <<>>
  /\ watching = FALSE
  /\ pending = <<>>
  /\ arrivals = 0
  /\ handled = <<>>
  /\ recs = <<>>
  /\ calls = <<>>
  /\ outcome = NoOutcome

ResolverNext == MainResolve

ResolverSpec == ResolverInit /\ [][ResolverNext]_vars

\* ------------------------------------------------------------ properties
Last(q) == q[Len(q)]

\* A step in which _debounced_switch handles a kdeglobals event.
HandlesEvent == handled' # handled

\* A step that starts no reconciliation and makes no external call.
NoReconcile == pc' = pc /\ recs' = recs /\ calls' = calls

\* A reconciliation is in flight.
InFlight == pc \in {"pgrep", "sessions", "setProfile", "konsolerc", "return", "blocked"}

\* C1. Change suppression: whenever a kdeglobals event is handled while the
\* resolver's output equals _last_profile, the step starts no reconciliation:
\* switch_all_konsoles is not entered and no external call is made, whatever
\* the previous reconciliation reported.
C1_ChangeSuppression ==
  [][(HandlesEvent /\ get_target_profile = _last_profile) => NoReconcile]_vars

\* C1 witness: an event was suppressed by the change gate although every
\* set_session_profile call of the latest reconciliation, of that same
\* profile, had failed.
C1_SuppressedAfterAllFailed ==
  /\ pc = "loop"
  /\ handled # <<>>
  /\ Last(handled).gate = "suppressed"
  /\ outcome # NoOutcome
  /\ outcome.profile = _last_profile
  /\ outcome.profile = get_target_profile
  /\ outcome.targetsAttempted > 0
  /\ outcome.targetsSucceeded = 0

\* C2 as stated: of two kdeglobals events that arrived less than the debounce
\* window apart, at most one started a reconciliation.
C2_DebounceByArrival ==
  \A i, j \in DOMAIN handled :
    (i < j /\ handled[j].arr - handled[i].arr < DEBOUNCE_SECONDS)
      => ~(handled[i].gate = "applied" /\ handled[j].gate = "applied")

\* C2 amended: of two kdeglobals events that _debounced_switch handled at
\* clock readings less than the debounce window apart, at most one started a
\* reconciliation.
C2_DebounceByHandlingTime ==
  \A i, j \in DOMAIN handled :
    (i < j /\ handled[j].at - handled[i].at < DEBOUNCE_SECONDS)
      => ~(handled[i].gate = "applied" /\ handled[j].gate = "applied")

\* C2 witness: two events handled less than the window apart, the first of
\* which started a reconciliation and the second of which did not.
C2_SecondWithinWindow ==
  \E i, j \in DOMAIN handled :
    /\ i < j
    /\ handled[j].at - handled[i].at < DEBOUNCE_SECONDS
    /\ handled[j].at > handled[i].at
    /\ handled[i].gate = "applied"
    /\ handled[j].gate = "debounced"

\* The latest event before position j that passed the debounce gate (0: none).
PrevProcessed(j) ==
  LET S == {i \in 1..(j - 1) : handled[i].gate # "debounced"}
  IN  IF S = {} THEN 0 ELSE CHOOSE i \in S : \A k \in S : k <= i

\* C3 as stated: a kdeglobals event that arrives less than the debounce window
\* after the previous processed kdeglobals event is discarded, so it starts no
\* reconciliation, whether that earlier event was applied or suppressed.
C3_DiscardAfterProcessed ==
  \A j \in DOMAIN handled :
    (PrevProcessed(j) # 0
      /\ handled[j].arr - handled[PrevProcessed(j)].arr < DEBOUNCE_SECONDS)
      => handled[j].gate # "applied"

\* C3 amended: a kdeglobals event handled less than the debounce window after
\* _last_switch_time is discarded: the step starts no reconciliation and leaves
\* _last_switch_time and _last_profile as they were.
C3_DiscardWithinWindowOfLastSwitch ==
  [][(HandlesEvent /\ clock - _last_switch_time < DEBOUNCE_SECONDS)
       => /\ Last(handled').gate = "debounced"
          /\ NoReconcile
          /\ UNCHANGED <<_last_switch_time, _last_profile>>]_vars

\* C3 witness: an event discarded by the debounce gate right after an event
\* that started a reconciliation, although the resolver's output had changed.
C3_DiscardedAfterApplied ==
  /\ Len(handled) >= 2
  /\ Last(handled).gate = "debounced"
  /\ handled[Len(handled) - 1].gate = "applied"
  /\ pc = "loop"
  /\ get_target_profile # _last_profile

\* C4. Startup forcing: main resolves the profile and enters the
\* reconciliation whatever the profile is; when that reconciliation is over it
\* is the only one, all its set_session_profile calls and its single
\* kwriteconfig6 call carry that profile; and until the first kdeglobals event
\* is handled _last_profile is that profile.
C4_StartupForcing ==
  /\ (pc # "resolve") => (recs # <<>> /\ recs[1].by = "main" /\ recs[1].profile \in Profiles)
  /\ (caller = "main" /\ InFlight) => (Len(recs) = 1 /\ profile = recs[1].profile)
  /\ (caller = "main" /\ pc = "return") =>
       /\ \A i \in DOMAIN calls :
            calls[i].op = "setProfile" => calls[i].value = recs[1].profile
       /\ Len(SelectSeq(calls, LAMBDA c : c.op = "kwriteconfig")) = 1
       /\ Last(calls).value = ProfileFile(recs[1].profile)
  /\ (pc = "loop" /\ handled = <<>>) =>
       /\ Len(recs) = 1
       /\ outcome # NoOutcome
       /\ outcome.profile = recs[1].profile
       /\ _last_profile = recs[1].profile

\* C4 witness: the watch loop is entered, no event handled yet, after a
\* startup reconciliation to Dark that switched a session.
C4_LoopEnteredAfterStartup ==
  /\ pc = "loop"
  /\ handled = <<>>
  /\ _last_profile = DARK_PROFILE
  /\ outcome # NoOutcome
  /\ outcome.targetsSucceeded > 0

\* The pids whose session-list query returned non-zero / zero.
QueryFailed == {calls[i].pid : i \in {k \in DOMAIN calls : calls[k].op = "sessions" /\ ~calls[k].ok}}
Responsive == DOMAIN konsoles \ QueryFailed

\* The targets of the pass: every session of every responsive instance.
Discovered == UNION {{<<pid, n>> : n \in 1..konsoles[pid]} : pid \in Responsive}

\* The set_session_profile calls made for target t, and those that failed.
ApplyCalls(t) ==
  {i \in DOMAIN calls : calls[i].op = "setProfile" /\ <<calls[i].pid, calls[i].session>> = t}
FailedApplies == {i \in DOMAIN calls : calls[i].op = "setProfile" /\ ~calls[i].ok}
PersistCalls == {i \in DOMAIN calls : calls[i].op = "kwriteconfig"}

\* switch_all_konsoles has returned and printed switched_count.
SwitchAllReturned == pc \in {"konsolerc", "return"}

RECURSIVE SessionsOf(_)
SessionsOf(P) ==
  IF P = {} THEN 0
  ELSE LET pid == CHOOSE x \in P : TRUE IN konsoles[pid] + SessionsOf(P \ {pid})

\* C5. Partial-failure isolation: when switch_all_konsoles has returned and
\* exactly one of its set_session_profile calls failed, every session of every
\* responsive instance received exactly one set_session_profile call and the
\* printed switched_count is the number of calls less one.
C5_PartialFailureIsolation ==
  (SwitchAllReturned /\ Cardinality(FailedApplies) = 1) =>
    /\ \A t \in Discovered : Cardinality(ApplyCalls(t)) = 1
    /\ switched_count = Len(Applies(calls)) - 1

\* C5 witness: switch_all_konsoles has returned after four calls of which
\* only the first failed.
C5_FirstOfFourFailed ==
  /\ SwitchAllReturned
  /\ Len(Applies(calls)) = 4
  /\ FailedApplies = {3}
  /\ switched_count = 3

\* C6. Discovery-failure isolation: when switch_all_konsoles has returned, no
\* set_session_profile call was made for an instance whose session-list query
\* failed, every session of every other running instance received one, and the
\* number of calls is the number of sessions of the responsive instances.
C6_DiscoveryFailureIsolation ==
  SwitchAllReturned =>
    /\ \A i \in DOMAIN calls :
         calls[i].op = "setProfile" => calls[i].pid \notin QueryFailed
    /\ \A t \in Discovered : Cardinality(ApplyCalls(t)) = 1
    /\ Len(Applies(calls)) = SessionsOf(Responsive)

\* C6 witness: two instances of two sessions each, the first unresponsive:
\* two targets attempted, not four.
C6_OneOfTwoUnresponsive ==
  /\ SwitchAllReturned
  /\ DOMAIN konsoles = {1, 2}
  /\ konsoles[1] = 2
  /\ konsoles[2] = 2
  /\ QueryFailed = {1}
  /\ Len(Applies(calls)) = 2

\* C7. A reconciliation calls kwriteconfig6 only when switch_all_konsoles has
\* returned; when the reconciliation is over it has called it exactly once,
\* as its last call, with the profile of the reconciliation, whatever the
\* set_session_profile calls returned; and main and notifier.loop() go on
\* only after a reconciliation that is over.
C7_PersistOnceAfterApplies ==
  /\ (pc \in {"pgrep", "sessions", "setProfile", "konsolerc"}) => PersistCalls = {}
  /\ (pc = "return") =>
       /\ PersistCalls = {Len(calls)}
       /\ Last(calls).value = ProfileFile(Last(recs).profile)
       /\ \A t \in Discovered : Cardinality(ApplyCalls(t)) = 1
  /\ (pc \in {"watch", "loop"}) =>
       /\ outcome # NoOutcome
       /\ outcome.profile = Last(recs).profile

\* C7 witness: an event-triggered reconciliation is over, every one of its
\* set_session_profile calls failed, and kwriteconfig6 was called.
C7_PersistedAfterAllFailed ==
  /\ pc = "return"
  /\ caller = "handler"
  /\ Len(Applies(calls)) >= 2
  /\ switched_count = 0
  /\ Last(calls).op = "kwriteconfig"

\* C8 as stated: after a reconciliation in which a set_session_profile call
\* failed, a kdeglobals event handled after the debounce window starts a
\* reconciliation.
C8_NextEventRetries ==
  [][(/\ HandlesEvent
      /\ outcome # NoOutcome
      /\ outcome.targetsSucceeded < outcome.targetsAttempted
      /\ clock - _last_switch_time >= DEBOUNCE_SECONDS)
       => pc' = "pgrep"]_vars

\* C8 amended: no target receives a second set_session_profile call within
\* one reconciliation; and a handled kdeglobals event starts a reconciliation
\* exactly when it is handled at least the debounce window after
\* _last_switch_time and the resolver's output differs from _last_profile,
\* and that reconciliation is for the resolver's output.
C8_RetryOnlyOnChange ==
  /\ [](\A i, j \in DOMAIN calls :
          (i < j /\ calls[i].op = "setProfile" /\ calls[j].op = "setProfile")
            => <<calls[i].pid, calls[i].session>> # <<calls[j].pid, calls[j].session>>)
  /\ [][HandlesEvent =>
          /\ (pc' = "pgrep") <=> (/\ clock - _last_switch_time >= DEBOUNCE_SECONDS
                                  /\ get_target_profile # _last_profile)
          /\ (pc' = "pgrep") => (profile' = get_target_profile /\ recs' # recs)]_vars

\* C8 witness: a kdeglobals event handled after the window, following a
\* reconciliation in which a call failed, was suppressed by the change gate.
C8_SuppressedAfterFailure ==
  /\ pc = "loop"
  /\ handled # <<>>
  /\ Last(handled).gate = "suppressed"
  /\ Last(handled).at - _last_switch_time >= DEBOUNCE_SECONDS
  /\ outcome.targetsAttempted = 2
  /\ outcome.targetsSucceeded = 1

\* C9 as stated: the watch loop is never entered without the watch.
C9_WatchFailureIsFatal == (pc = "loop") => watching

\* C10. Optimistic update ordering: from the entry into switch_all_konsoles
\* for a handled event, before its first call, until the reconciliation is
\* over, _last_profile is the new profile and _last_switch_time is the clock
\* reading taken for that event.
C10_OptimisticUpdate ==
  (caller = "handler" /\ InFlight) =>
    /\ handled # <<>>
    /\ Last(handled).gate = "applied"
    /\ _last_switch_time = Last(handled).at
    /\ _last_profile = profile
    /\ profile = Last(recs).profile
    /\ Last(recs).by = "handler"

\* C10 witness: switch_all_konsoles is entered for an event, no call made
\* yet, and the handler already names Dark.
C10_UpdatedBeforeFirstCall ==
  /\ caller = "handler"
  /\ pc = "pgrep"
  /\ calls = <<>>
  /\ _last_profile = DARK_PROFILE
  /\ _last_switch_time = clock


\* A step in which the notifier takes the next queued event and hands it to
\* the handler.
TakesEvent == pending # <<>> /\ pending' = Tail(pending) /\ pc' # "stopped"

\* C11. No overlapping reconciliations: a reconciliation starts only while
\* none is in flight; the notifier takes a queued event only while
\* notifier.loop() is idle, when the latest reconciliation has reported its
\* result and no call of it is outstanding; and control comes back to
\* notifier.loop() from a reconciliation only after its kwriteconfig6 call.
C11_NoOverlap ==
  /\ [][recs' # recs => (~InFlight /\ Len(recs') = Len(recs) + 1)]_vars
  /\ [][TakesEvent =>
          /\ pc = "loop"
          /\ calls = <<>>
          /\ outcome # NoOutcome
          /\ outcome.profile = Last(recs).profile]_vars
  /\ [][(InFlight /\ pc' = "loop") =>
          (pc = "return" /\ Last(calls).op = "kwriteconfig")]_vars

\* C11 witness: a kdeglobals event that was queued while a reconciliation was
\* in flight has been handled, at a later clock reading, after that
\* reconciliation reported its result.
C11_QueuedEventWaited ==
  /\ pc = "loop"
  /\ handled # <<>>
  /\ Last(handled).arr < Last(handled).at
  /\ Len(recs) >= 2
  /\ outcome # NoOutcome


\* C12 as stated: every reconciliation that is started is eventually over
\* (control is back in main or in notifier.loop(), or the process was
\* interrupted), also when a qdbus-qt6 call never answers.
C12_ReconcileCompletes == InFlight ~> ~InFlight


\* The calls of the first and of the second pass of IdemSpec.
SecondPgrep ==
  LET S == {i \in DOMAIN calls : calls[i].op = "pgrep"}
  IN  CHOOSE i \in S : \A k \in S : k <= i
FirstPass == SubSeq(calls, 1, SecondPgrep - 1)
SecondPass == SubSeq(calls, SecondPgrep, Len(calls))

\* C13. Reconcile idempotence: when the second of two passes in a row with
\* the same profile, the same instances and sessions and the same answers is
\* over, it has made the same set_session_profile calls as the first, and its
\* switched_count is the one the first pass printed.
C13_ReconcileIdempotent ==
  (Len(recs) = 2 /\ pc = "return") =>
    /\ recs[2].profile = recs[1].profile
    /\ Applies(SecondPass) = Applies(FirstPass)
    /\ Len(Applies(SecondPass)) = outcome.targetsAttempted
    /\ switched_count = outcome.targetsSucceeded

\* C13 witness: the second pass is over after three calls, of which the
\* second failed, to the sessions of two instances.
C13_SecondPassOver ==
  /\ Len(recs) = 2
  /\ pc = "return"
  /\ Len(Applies(SecondPass)) = 3
  /\ switched_count = 2
  /\ ~Applies(SecondPass)[2].ok
  /\ Applies(SecondPass)[1].pid # Applies(SecondPass)[3].pid


\* Character c is letter l (lower case) in either case.
SameLetter(c, l) == c = l \/ (c \in DOMAIN UpperToLower /\ UpperToLower[c] = l)

\* Some dark keyword occurs in text, letter by letter, in whatever case.
HasDarkKeyword(text) ==
  \E kw \in dark_indicators :
    \E i \in 1..Len(text) :
      /\ i + Len(kw) - 1 <= Len(text)
      /\ \A k \in 1..Len(kw) : SameLetter(text[i + k - 1], kw[k])

\* C14. Mode Resolver result: get_target_profile is Dark exactly when
\* kreadconfig6 exited with 0 and what it printed contains one of the dark
\* keywords in whatever case, and Light otherwise, the failed query and the
\* empty output included; and that is the profile main goes on with.
C14_ResolverResult ==
  LET expected == IF kread # ExitNonZero /\ HasDarkKeyword(kread)
                    THEN DARK_PROFILE ELSE LIGHT_PROFILE
  IN  /\ get_target_profile = expected
      /\ (pc # "resolve") => (profile = expected /\ recs[1].profile = expected)

\* C14 witness: main resolved Dark for a name that spells the keyword in
\* mixed case.
C14_MixedCaseDark ==
  /\ pc = "pgrep"
  /\ kread = <<"D", "a", "r", "K", "\n">>
  /\ profile = DARK_PROFILE


\* The event e as the other of the two event classes reports it.
OtherMask(e) ==
  [e EXCEPT !.mask = IF e.mask = "IN_CLOSE_WRITE" THEN "IN_MOVED_TO" ELSE "IN_CLOSE_WRITE"]

\* C15. Frame condition for events that apply nothing: a step that takes an
\* event whose name is not kdeglobals, and a step that takes a kdeglobals
\* event that passes the debounce gate while the resolver's output equals
\* _last_profile, leave _last_switch_time and _last_profile as they were,
\* start no reconciliation and make no call; and every step that takes an
\* event is the step the handler of the other event class would take for it.
C15_NonApplyingEventsFrame ==
  /\ [][(TakesEvent /\ Head(pending).name # KDEGLOBALS_NAME) =>
          /\ UNCHANGED <<_last_switch_time, _last_profile>>
          /\ NoReconcile
          /\ handled' = handled]_vars
  /\ [][(/\ TakesEvent
          /\ Head(pending).name = KDEGLOBALS_NAME
          /\ clock - _last_switch_time >= DEBOUNCE_SECONDS
          /\ get_target_profile = _last_profile) =>
          /\ UNCHANGED <<_last_switch_time, _last_profile>>
          /\ NoReconcile]_vars
  /\ [][TakesEvent => Dispatch(OtherMask(Head(pending)))]_vars

\* C15 witness: two events were taken and neither started a reconciliation:
\* one for another file of ~/.config, one for kdeglobals that the change gate
\* suppressed.
C15_IgnoredAndSuppressed ==
  /\ pc = "loop"
  /\ arrivals = 2
  /\ pending = <<>>
  /\ Len(handled) = 1
  /\ handled[1].gate = "suppressed"
  /\ Len(recs) = 1


\* The session-list queries made for pid.
SessionQueries(pid) == {i \in DOMAIN calls : calls[i].op = "sessions" /\ calls[i].pid = pid}

\* C16 as stated: within a reconciliation every session-list query is made
\* before the first set_session_profile call.
C16_DiscoveryBeforeApply ==
  \A i, j \in DOMAIN calls :
    (calls[i].op = "setProfile" /\ calls[j].op = "sessions") => j < i

\* C16 amended: the first call of a reconciliation, and that one only, is
\* pgrep; no instance is queried twice; every set_session_profile call
\* follows the successful query of its instance with only calls to that
\* instance's sessions between them; and when switch_all_konsoles has
\* returned, every running instance has been queried once.
C16_DiscoveryPerInstance ==
  /\ \A i \in DOMAIN calls : (calls[i].op = "pgrep") <=> (i = 1)
  /\ \A pid \in Pids : Cardinality(SessionQueries(pid)) <= 1
  /\ \A i \in DOMAIN calls :
       calls[i].op = "setProfile" =>
         \E j \in SessionQueries(calls[i].pid) :
           /\ j < i
           /\ calls[j].ok
           /\ \A k \in (j + 1)..i :
                calls[k].op = "setProfile" /\ calls[k].pid = calls[i].pid
  /\ SwitchAllReturned =>
       \A pid \in DOMAIN konsoles : Cardinality(SessionQueries(pid)) = 1

\* C16 witness: switch_all_konsoles has returned, and the second instance was
\* queried, and a session of it switched, after a session of the first
\* instance had been switched.
C16_QueryAfterApply ==
  /\ SwitchAllReturned
  /\ \E i, j, k \in DOMAIN calls :
       /\ i < j
       /\ j < k
       /\ calls[i].op = "setProfile"
       /\ calls[i].pid = 1
       /\ calls[j].op = "sessions"
       /\ calls[j].pid = 2
       /\ calls[k].op = "setProfile"
       /\ calls[k].pid = 2


\* C17 as stated: whenever a reconciliation is in flight or is over,
\* _last_profile is the profile of the latest reconciliation started, the
\* startup reconciliation included.
C17_LastProfileIsLatestAttempt ==
  (recs # <<>>) => (_last_profile = Last(recs).profile)

\* C17 amended: once main has entered notifier.loop(), whether the loop is
\* idle, a reconciliation for an event is in flight or over, or the process
\* was interrupted, _last_profile is the profile of the latest reconciliation
\* started, whatever its calls returned; until then, the startup
\* reconciliation in flight or over, _last_profile is still None.
C17_LastProfileOnceWatching ==
  /\ (pc \in {"loop", "stopped"} \/ (caller = "handler" /\ InFlight)) =>
       (_last_profile = Last(recs).profile)
  /\ (pc \in {"resolve", "watch", "crashed"} \/ (caller = "main" /\ InFlight)) =>
       (_last_profile = None)

\* C17 witness: the loop is idle after a reconciliation for an event in
\* which every set_session_profile call failed, and _last_profile names its
\* profile.
C17_AfterFailedEventReconcile ==
  /\ pc = "loop"
  /\ Len(recs) = 2
  /\ outcome.targetsAttempted >= 1
  /\ outcome.targetsSucceeded = 0
  /\ _last_profile = recs[2].profile


\* The reconciliations started for events, as positions of recs.
EventRecs == {i \in DOMAIN recs : recs[i].by = "handler"}

\* C18. Any two reconciliations started for events are started at clock
\* readings at least the debounce window apart; _last_switch_time is the
\* reading of the latest of them, and 0, not the time of the startup
\* reconciliation, while there is none.
C18_EventReconcilesSpaced ==
  /\ \A i, j \in EventRecs :
       i < j => recs[j].at - recs[i].at >= DEBOUNCE_SECONDS
  /\ _last_switch_time = IF EventRecs = {} THEN 0 ELSE Last(recs).at

\* C18 witness: the first reconciliation for an event started less than the
\* window after the startup reconciliation, and the second one at least the
\* window after the first.
C18_FirstEventSoonAfterStartup ==
  /\ Len(recs) = 3
  /\ recs[2].at - recs[1].at < DEBOUNCE_SECONDS
  /\ recs[3].at - recs[2].at >= DEBOUNCE_SECONDS


\* C19. The profile of every reconciliation after the startup one, all of
\* them started for events, differs from the profile of the reconciliation
\* before it: the reconciled profiles alternate between Light and Dark.
C19_ProfilesAlternate ==
  \A i \in DOMAIN recs :
    /\ recs[i].profile \in Profiles
    /\ (i > 1) => (recs[i].by = "handler" /\ recs[i].profile # recs[i - 1].profile)

\* C19 witness: three reconciliations, for Light, Dark and Light.
C19_LightDarkLight ==
  /\ Len(recs) = 3
  /\ recs[1].profile = LIGHT_PROFILE
  /\ recs[2].profile = DARK_PROFILE
  /\ recs[3].profile = LIGHT_PROFILE

\* C20. A reconciliation is started only by main at startup or in the step
\* that takes a kdeglobals event which passes both gates; and apart from
\* main's write before the loop, _last_profile changes only in such a step:
\* no later step makes up for a discarded event.
C20_NoTrailingEdge ==
  /\ [][recs' # recs =>
          \/ pc = "resolve"
          \/ /\ pc = "loop"
             /\ TakesEvent
             /\ Head(pending).name = KDEGLOBALS_NAME
             /\ clock - _last_switch_time >= DEBOUNCE_SECONDS
             /\ get_target_profile # _last_profile]_vars
  /\ [][_last_profile' # _last_profile =>
          (pc = "watch" \/ (TakesEvent /\ recs' # recs))]_vars

\* C20 witness: the latest kdeglobals event was discarded by the debounce
\* gate, the window has passed since, no event is queued, and _last_profile
\* still differs from the resolver's output.
C20_StaleAfterWindow ==
  /\ pc = "loop"
  /\ pending = <<>>
  /\ handled # <<>>
  /\ Last(handled).gate = "debounced"
  /\ clock - Last(handled).at >= DEBOUNCE_SECONDS
  /\ get_target_profile # _last_profile

====
